---- MODULE Spec2Model ----
(***************************************************************************)
(* Model of minesweeper.py: the Minesweeper board (nearby_mines), the      *)
(* Sentence class and the MinesweeperAI knowledge engine (add_knowledge,   *)
(* check_obvious, make_inferences, make_safe_move, make_random_move).      *)
(*                                                                         *)
(* A cell is a pair <<i, j>>: i is the row (0 <= i < height), j is the     *)
(* column (0 <= j < width).  A sentence is a record [cells, count].        *)
(* knowledge and unclicked are Python lists, modelled as sequences.        *)
(***************************************************************************)
EXTENDS Integers, Sequences, FiniteSets

\* Bounds of the model: the largest board (rows, columns, cells), the largest
\* number of mines on it, the largest number of add_knowledge calls in one
\* behaviour, the largest number of direct mark_mine / mark_safe calls in
\* one behaviour and the largest board of the behaviours that make them.
MaxHeight == 3
MaxWidth == 3
MaxCells == 9
MaxMines == 2
MaxMoves == 2
MaxMarks == 2
MaxMarkCells == 4

VARIABLES
    height,      \* MinesweeperAI.height (= Minesweeper.height)
    width,       \* MinesweeperAI.width  (= Minesweeper.width)
    board,       \* Minesweeper.mines: the cells that hold a mine
    moves_made,  \* MinesweeperAI.moves_made
    mines,       \* MinesweeperAI.mines
    safes,       \* MinesweeperAI.safes
    unclicked,   \* MinesweeperAI.unclicked (a list)
    knowledge,   \* MinesweeperAI.knowledge (a list of sentences)
    op,          \* name of the last method called on the engine
    arg,         \* the cell argument of the last call (None if it takes none)
    ret,         \* the value returned by the last call (None if none)
    twice,       \* the last call was a mark call repeating the call before it
    nmarks,      \* number of direct mark_mine / mark_safe calls so far
    passes,      \* add_knowledge: times it ran make_inferences and check_obvious
    derived,     \* add_knowledge: the new_knowledge lists make_inferences built
    at_append,   \* add_knowledge: knowledge once the new sentence is appended
    at_sweep     \* add_knowledge: knowledge when its first check_obvious starts

vars == <<height, width, board, moves_made, mines, safes, unclicked,
          knowledge, op, arg, ret, twice, nmarks, passes, derived,
          at_append, at_sweep>>

\* Python's None, as a value no cell is equal to.
None == <<-1, -1>>

\* The ValueError that list.remove raises, as a value no cell is equal to.
ValueError == <<-2, -2>>

Max(a, b) == IF a >= b THEN a ELSE b
Min(a, b) == IF a <= b THEN a ELSE b

\* range(lo, hi)
PyRange(lo, hi) == {k \in lo .. (hi - 1) : TRUE}

\* The cells of a board of h rows and w columns.
GridOf(h, w) == {<<i, j>> : i \in PyRange(0, h), j \in PyRange(0, w)}
Grid == GridOf(height, width)

\* The elements of a list.
Elems(seq) == {seq[k] : k \in DOMAIN seq}

-----------------------------------------------------------------------------
(* Minesweeper *)

\* Minesweeper.nearby_mines(cell)
nearby_mines(cell) ==
    Cardinality({c \in {<<i, j>> : i \in PyRange(cell[1] - 1, cell[1] + 2),
                                   j \in PyRange(cell[2] - 1, cell[2] + 2)} :
                    /\ c # cell
                    /\ 0 <= c[1] /\ c[1] < height
                    /\ 0 <= c[2] /\ c[2] < width
                    /\ c \in board})

-----------------------------------------------------------------------------
(* Sentence *)

\* Sentence.__init__
Sentence(cells, count) == [cells |-> cells, count |-> count]

\* Sentence.known_mines: {the returned set}, or {} when it returns None.
known_mines(s) ==
    IF s.count = Cardinality(s.cells) THEN {s.cells} ELSE {}

\* Sentence.known_safes: {the returned set}, or {} when it returns None.
known_safes(s) ==
    IF s.count = 0 THEN {s.cells} ELSE {}

\* Sentence.mark_mine without the membership test.
Sentence_mark_mine_always(s, cell) ==
    [cells |-> s.cells \ {cell}, count |-> s.count - 1]

\* Sentence.mark_mine
Sentence_mark_mine(s, cell) ==
    IF cell \in s.cells
    THEN [cells |-> s.cells \ {cell}, count |-> s.count - 1]
    ELSE s

\* Sentence.mark_safe decrementing the count as mark_mine does.
Sentence_mark_safe_decrements(s, cell) ==
    IF cell \in s.cells
    THEN [cells |-> s.cells \ {cell}, count |-> s.count - 1]
    ELSE s

\* Sentence.mark_safe
Sentence_mark_safe(s, cell) ==
    IF cell \in s.cells
    THEN [cells |-> s.cells \ {cell}, count |-> s.count]
    ELSE s

-----------------------------------------------------------------------------
(* MinesweeperAI: the methods as functions of the engine's fields.        *)
(* st is a record [mines, safes, knowledge].                               *)

\* MinesweeperAI.__init__: self.unclicked, row by row.
InitUnclicked(h, w) ==
    [k \in 1 .. (h * w) |-> <<(k - 1) \div w, (k - 1) % w>>]

\* MinesweeperAI.mark_mine
AI_mark_mine(st, cell) ==
    [mines |-> st.mines \cup {cell},
     safes |-> st.safes,
     knowledge |-> [k \in DOMAIN st.knowledge |->
                       Sentence_mark_mine(st.knowledge[k], cell)]]

\* MinesweeperAI.mark_safe assigning self.safes instead of adding to it.
AI_mark_safe_assigns(st, cell) ==
    [mines |-> st.mines,
     safes |-> {cell},
     knowledge |-> [k \in DOMAIN st.knowledge |->
                       Sentence_mark_safe(st.knowledge[k], cell)]]

\* MinesweeperAI.mark_safe
AI_mark_safe(st, cell) ==
    [mines |-> st.mines,
     safes |-> st.safes \cup {cell},
     knowledge |-> [k \in DOMAIN st.knowledge |->
                       Sentence_mark_safe(st.knowledge[k], cell)]]

\* "for element in safe_cells: self.mark_safe(element)"
RECURSIVE MarkAllSafe(_, _)
MarkAllSafe(st, cells) ==
    IF cells = {} THEN st
    ELSE LET c == CHOOSE x \in cells : TRUE
         IN  MarkAllSafe(AI_mark_safe(st, c), cells \ {c})

\* "for element in mine_cells: self.mark_mine(element)"
RECURSIVE MarkAllMines(_, _)
MarkAllMines(st, cells) ==
    IF cells = {} THEN st
    ELSE LET c == CHOOSE x \in cells : TRUE
         IN  MarkAllMines(AI_mark_mine(st, c), cells \ {c})

\* list.remove(x) left out: the list stays as it is.
ListRemove_none(seq, x) == seq

\* list.remove(x): drops the first element equal to x.
RECURSIVE ListRemove(_, _)
ListRemove(seq, x) ==
    IF seq = <<>> THEN <<>>
    ELSE IF Head(seq) = x THEN Tail(seq)
    ELSE <<Head(seq)>> \o ListRemove(Tail(seq), x)

\* The loop over empty_sets left out: knowledge keeps its empty sentences.
RemoveAll_none(K, empties) == K

\* "for element in empty_sets: self.knowledge.remove(element)"
RECURSIVE RemoveAll(_, _)
RemoveAll(K, empties) ==
    IF empties = <<>> THEN K
    ELSE RemoveAll(ListRemove(K, Head(empties)), Tail(empties))

\* MinesweeperAI.check_obvious
check_obvious(st) ==
    LET K == st.knowledge
        empty_sets == SelectSeq(K, LAMBDA s : Cardinality(s.cells) = 0)
        scanned == {k \in DOMAIN K : Cardinality(K[k].cells) # 0}
        safe_cells == UNION {UNION known_safes(K[k]) : k \in scanned}
        mine_cells == UNION {UNION known_mines(K[k]) : k \in scanned}
        removed == [st EXCEPT !.knowledge = RemoveAll(K, empty_sets)]
    IN  MarkAllMines(MarkAllSafe(removed, safe_cells), mine_cells)

\* new_knowledge with the two counts added instead of subtracted.
RECURSIVE new_knowledge_adds(_, _)
new_knowledge_adds(K, p) ==
    LET n == Len(K)
    IN  IF p >= n * n THEN <<>>
        ELSE LET sentence1 == K[(p \div n) + 1]
                 sentence2 == K[(p % n) + 1]
             IN  IF /\ sentence1.cells \subseteq sentence2.cells
                    /\ sentence1.cells # sentence2.cells
                 THEN <<Sentence(sentence2.cells \ sentence1.cells,
                                 sentence2.count + sentence1.count)>>
                      \o new_knowledge_adds(K, p + 1)
                 ELSE new_knowledge_adds(K, p + 1)

\* make_inferences, the two nested loops: new_knowledge, the pairs
\* (sentence1, sentence2) taken in list order, p counting the pairs done.
RECURSIVE new_knowledge(_, _)
new_knowledge(K, p) ==
    LET n == Len(K)
    IN  IF p >= n * n THEN <<>>
        ELSE LET sentence1 == K[(p \div n) + 1]
                 sentence2 == K[(p % n) + 1]
             IN  IF /\ sentence1.cells \subseteq sentence2.cells
                    /\ sentence1.cells # sentence2.cells
                 THEN <<Sentence(sentence2.cells \ sentence1.cells,
                                 sentence2.count - sentence1.count)>>
                      \o new_knowledge(K, p + 1)
                 ELSE new_knowledge(K, p + 1)

\* make_inferences, the last loop: append what knowledge does not hold yet.
RECURSIVE AppendNew(_, _)
AppendNew(K, new) ==
    IF new = <<>> THEN K
    ELSE IF Head(new) \in Elems(K) THEN AppendNew(K, Tail(new))
    ELSE AppendNew(Append(K, Head(new)), Tail(new))

\* MinesweeperAI.make_inferences
make_inferences(st) ==
    [st EXCEPT !.knowledge = AppendNew(st.knowledge,
                                       new_knowledge(st.knowledge, 0))]

\* add_knowledge: the list unclicked_neighbors, given the cell and
\* self.moves_made (which holds the cell by then).
unclicked_neighbors(cell, moved) ==
    LET lower_bound_x == Max(0, cell[1] - 1)
        upper_bound_x == Min(width, cell[1] + 2)
        lower_bound_y == Max(0, cell[2] - 1)
        upper_bound_y == Min(height, cell[2] + 2)
    IN  {c \in {<<i, j>> : i \in PyRange(lower_bound_x, upper_bound_x),
                           j \in PyRange(lower_bound_y, upper_bound_y)} :
            c \notin moved}

\* add_knowledge, "self.knowledge.append(Sentence(unclicked_neighbors, count))".
\* st is the engine after mark_safe(cell).
AppendSentence(st, cell, count, moved) ==
    [st EXCEPT !.knowledge =
        Append(@, Sentence(unclicked_neighbors(cell, moved), count))]

\* add_knowledge, the first make_inferences() and check_obvious().
FirstPass(st, cell, count, moved) ==
    check_obvious(make_inferences(AppendSentence(st, cell, count, moved)))

\* add_knowledge, "if len(self.safes) == 0"
TriesAgain(first) == Cardinality(first.safes) = 0

\* add_knowledge, from the new sentence on.  st is the engine after
\* mark_safe(cell).  engine: the engine's fields when the call returns;
\* passes: how many times it ran make_inferences and check_obvious; derived:
\* the new_knowledge lists of those make_inferences calls, one after the
\* other; at_append, at_sweep: knowledge once the sentence is appended and
\* when the first check_obvious starts.
Run(st, cell, count, moved) ==
    LET appended == AppendSentence(st, cell, count, moved)
        inferred == make_inferences(appended)
        first == check_obvious(inferred)
        again == TriesAgain(first)
    IN  [engine |-> IF again THEN check_obvious(make_inferences(first))
                    ELSE first,
         passes |-> IF again THEN 2 ELSE 1,
         derived |-> new_knowledge(appended.knowledge, 0)
                     \o (IF again THEN new_knowledge(first.knowledge, 0)
                         ELSE <<>>),
         at_append |-> appended.knowledge,
         at_sweep |-> inferred.knowledge]

\* add_knowledge, from the new sentence on: the engine's fields when it
\* returns.
Propagate(st, cell, count, moved) == Run(st, cell, count, moved).engine

\* safe_cells_list without "- self.moves_made".
safe_cells_list_all == safes

\* make_safe_move: safe_cells_list
safe_cells_list == safes \ moves_made

\* options without the "not in mines_list" filter.
options_all == Elems(unclicked)

\* make_random_move: options
options == {x \in Elems(unclicked) : x \notin mines}

-----------------------------------------------------------------------------
(* The state after construction and the calls a driver makes.              *)

Engine == [mines |-> mines, safes |-> safes, knowledge |-> knowledge]

\* Minesweeper.__init__ and MinesweeperAI.__init__
Init ==
    /\ height \in 1 .. MaxHeight
    /\ width \in 1 .. MaxWidth
    /\ height * width <= MaxCells
    /\ board \in {b \in SUBSET GridOf(height, width) : Cardinality(b) <= MaxMines}
    /\ moves_made = {}
    /\ mines = {}
    /\ safes = {}
    /\ unclicked = InitUnclicked(height, width)
    /\ knowledge = <<>>
    /\ op = "init"
    /\ arg = None
    /\ ret = None
    /\ twice = FALSE
    /\ nmarks = 0
    /\ passes = 0
    /\ derived = <<>>
    /\ at_append = <<>>
    /\ at_sweep = <<>>

\* add_knowledge with "self.unclicked.remove(cell)" as its last statement:
\* the ValueError comes after the sentence was added and propagated.
AddKnowledgeOn_removes_last(cell) ==
    LET moved == moves_made \cup {cell}
        marked == AI_mark_safe(Engine, cell)
        count == nearby_mines(cell)
    IN  \E run \in {Run(marked, cell, count, moved)} :
           /\ moves_made' = moved
           /\ op' = "add_knowledge"
           /\ arg' = cell
           /\ twice' = FALSE
           /\ mines' = run.engine.mines
           /\ safes' = run.engine.safes
           /\ knowledge' = run.engine.knowledge
           /\ passes' = run.passes
           /\ derived' = run.derived
           /\ at_append' = run.at_append
           /\ at_sweep' = run.at_sweep
           /\ IF cell \in Elems(unclicked)
              THEN unclicked' = ListRemove(unclicked, cell) /\ ret' = None
              ELSE unclicked' = unclicked /\ ret' = ValueError
           /\ UNCHANGED <<height, width, board, nmarks>>

\* add_knowledge(cell, nearby_mines(cell)).  unclicked.remove(cell) raises
\* ValueError when the cell is not in the list; the call ends there.
AddKnowledgeOn(cell) ==
    LET moved == moves_made \cup {cell}
        marked == AI_mark_safe(Engine, cell)
        count == nearby_mines(cell)
    IN  /\ moves_made' = moved
        /\ op' = "add_knowledge"
        /\ arg' = cell
        /\ twice' = FALSE
        /\ IF cell \in Elems(unclicked)
           THEN \E run \in {Run(marked, cell, count, moved)} :
                   /\ unclicked' = ListRemove(unclicked, cell)
                   /\ mines' = run.engine.mines
                   /\ safes' = run.engine.safes
                   /\ knowledge' = run.engine.knowledge
                   /\ passes' = run.passes
                   /\ derived' = run.derived
                   /\ at_append' = run.at_append
                   /\ at_sweep' = run.at_sweep
                   /\ ret' = None
           ELSE /\ unclicked' = unclicked
                /\ mines' = marked.mines
                /\ safes' = marked.safes
                /\ knowledge' = marked.knowledge
                /\ passes' = 0
                /\ derived' = <<>>
                /\ at_append' = <<>>
                /\ at_sweep' = <<>>
                /\ ret' = ValueError
        /\ UNCHANGED <<height, width, board, nmarks>>

\* add_knowledge for a cell of the grid that holds no mine and was not
\* observed before.
AddKnowledge ==
    /\ Cardinality(moves_made) < MaxMoves
    /\ \E cell \in Grid \ (board \cup moves_made) : AddKnowledgeOn(cell)

\* make_safe_move() recording the move it returns in self.moves_made.
MakeSafeMove_plays ==
    /\ IF Cardinality(safe_cells_list) > 0
       THEN \E candidate \in safe_cells_list :
               /\ ret' = candidate
               /\ moves_made' = moves_made \cup {candidate}
       ELSE ret' = None /\ moves_made' = moves_made
    /\ op' = "make_safe_move"
    /\ arg' = None
    /\ twice' = FALSE
    /\ UNCHANGED <<height, width, board, mines, safes, unclicked,
                   knowledge, nmarks, passes, derived, at_append, at_sweep>>

\* make_safe_move()
MakeSafeMove ==
    /\ IF Cardinality(safe_cells_list) > 0
       THEN \E candidate \in safe_cells_list : ret' = candidate
       ELSE ret' = None
    /\ op' = "make_safe_move"
    /\ arg' = None
    /\ twice' = FALSE
    /\ UNCHANGED <<height, width, board, moves_made, mines, safes, unclicked,
                   knowledge, nmarks, passes, derived, at_append, at_sweep>>

\* make_random_move()
MakeRandomMove ==
    /\ IF Cardinality(options) > 0
       THEN \E candidate \in options : ret' = candidate
       ELSE ret' = None
    /\ op' = "make_random_move"
    /\ arg' = None
    /\ twice' = FALSE
    /\ UNCHANGED <<height, width, board, moves_made, mines, safes, unclicked,
                   knowledge, nmarks, passes, derived, at_append, at_sweep>>

Next == AddKnowledge \/ MakeSafeMove \/ MakeRandomMove

Spec == Init /\ [][Next]_vars

-----------------------------------------------------------------------------
(* A client that also calls the engine's public mark_mine / mark_safe.     *)

\* MinesweeperAI.mark_mine(cell), called directly
MarkMine ==
    /\ nmarks < MaxMarks
    /\ \E cell \in Grid :
          LET st == AI_mark_mine(Engine, cell)
          IN  /\ mines' = st.mines
              /\ safes' = st.safes
              /\ knowledge' = st.knowledge
              /\ arg' = cell
              /\ twice' = (op = "mark_mine" /\ arg = cell)
    /\ op' = "mark_mine"
    /\ ret' = None
    /\ nmarks' = nmarks + 1
    /\ UNCHANGED <<height, width, board, moves_made, unclicked, passes,
                   derived, at_append, at_sweep>>

\* MinesweeperAI.mark_safe(cell), called directly
MarkSafe ==
    /\ nmarks < MaxMarks
    /\ \E cell \in Grid :
          LET st == AI_mark_safe(Engine, cell)
          IN  /\ mines' = st.mines
              /\ safes' = st.safes
              /\ knowledge' = st.knowledge
              /\ arg' = cell
              /\ twice' = (op = "mark_safe" /\ arg = cell)
    /\ op' = "mark_safe"
    /\ ret' = None
    /\ nmarks' = nmarks + 1
    /\ UNCHANGED <<height, width, board, moves_made, unclicked, passes,
                   derived, at_append, at_sweep>>

NextMark == AddKnowledge \/ MarkMine \/ MarkSafe

InitMark == Init /\ height * width <= MaxMarkCells

SpecMark == InitMark /\ [][NextMark]_vars

-----------------------------------------------------------------------------
(* A driver that observes a cell it has observed before.                   *)

\* add_knowledge for a cell that is in moves_made already
AddKnowledgeRepeat ==
    \E cell \in moves_made : AddKnowledgeOn(cell)

NextRepeat == AddKnowledge \/ AddKnowledgeRepeat

SpecRepeat == Init /\ [][NextRepeat]_vars

-----------------------------------------------------------------------------
(* A driver that observes any cell of the grid once, mine or not.          *)

\* add_knowledge for a cell of the grid that was not observed before
AddKnowledgeAny ==
    /\ Cardinality(moves_made) < MaxMoves
    /\ \E cell \in Grid \ moves_made : AddKnowledgeOn(cell)

NextAny == AddKnowledgeAny

SpecAny == Init /\ [][NextAny]_vars

-----------------------------------------------------------------------------
(* Properties *)

\* The cells of the grid within one row and one column of cell, cell excluded.
InGridNeighbours(cell) ==
    {c \in Grid : /\ c # cell
                  /\ c[1] - cell[1] \in {-1, 0, 1}
                  /\ c[2] - cell[2] \in {-1, 0, 1}}

\* The cells that occur in some sentence of knowledge.
SentenceCells == UNION {knowledge[k].cells : k \in DOMAIN knowledge}

\* C1: soundness of deduction.  After add_knowledge calls on distinct
\* non-mine cells of the grid with their true counts, every cell of mines is
\* a mine of the board inside the grid and every cell of safes is a cell of
\* the grid that holds no mine.
C1_Sound ==
    /\ mines \subseteq (board \cap Grid)
    /\ safes \subseteq (Grid \ board)

\* C2: count invariant.  Whenever add_knowledge has returned, every sentence
\* of knowledge has 0 <= count <= |cells|.
C2_CountInvariant ==
    \A k \in DOMAIN knowledge :
        /\ 0 <= knowledge[k].count
        /\ knowledge[k].count <= Cardinality(knowledge[k].cells)

\* C3: mines and safes are disjoint in every state reached by add_knowledge
\* calls on distinct non-mine cells of the grid with their true counts.
C3_Disjoint == mines \cap safes = {}

\* C4: resolved cells are purged.  Whenever add_knowledge has returned, no
\* cell of any sentence of knowledge is in mines, in safes or in moves_made.
C4_Purged == SentenceCells \cap (mines \cup safes \cup moves_made) = {}

\* C5: monotonicity.  No call removes a cell from mines, from safes or from
\* moves_made: each set after a call is a superset of the set before it.
C5_Monotonic ==
    [][/\ moves_made \subseteq moves_made'
       /\ mines \subseteq mines'
       /\ safes \subseteq safes']_vars

\* C5 witness: several calls have been made and all three sets hold cells,
\* safes holding more than the observed cells.
C5_Witness ==
    /\ op = "add_knowledge"
    /\ Cardinality(moves_made) >= 2
    /\ mines # {}
    /\ safes \ moves_made # {}

\* C6: make_safe_move returns a cell of safes minus moves_made when that set
\* is not empty, and None when it is empty.
C6_SafeMove ==
    [][op' = "make_safe_move" =>
          IF safes \ moves_made # {}
          THEN ret' \in safes \ moves_made /\ ret' \notin moves_made
          ELSE ret' = None]_vars

\* C6 witness: make_safe_move returned a cell while some safe cells had
\* already been played.
C6_Witness ==
    /\ op = "make_safe_move"
    /\ ret \in safes
    /\ Cardinality(moves_made) >= 2
    /\ Cardinality(safes \ moves_made) >= 2

\* C7: make_random_move returns, when it returns a cell, a cell of unclicked
\* that is neither in mines nor in moves_made; it returns None exactly when
\* unclicked minus mines is empty.
C7_RandomMove ==
    [][op' = "make_random_move" =>
          /\ ret' # None => /\ ret' \in Elems(unclicked)
                            /\ ret' \notin mines
                            /\ ret' \notin moves_made
          /\ ret' = None <=> Elems(unclicked) \ mines = {}]_vars

\* C7 witness: make_random_move returned a cell while an unclicked cell was
\* a known mine and some cells had been played.
C7_Witness ==
    /\ op = "make_random_move"
    /\ ret # None
    /\ Elems(unclicked) \cap mines # {}
    /\ moves_made # {}

\* C8: the move queries are pure.  make_safe_move and make_random_move leave
\* moves_made, safes, mines, unclicked and knowledge as they were.
C8_QueriesPure ==
    [][op' \in {"make_safe_move", "make_random_move"} =>
          UNCHANGED <<moves_made, safes, mines, unclicked, knowledge>>]_vars

\* C8 witness: a query returned a cell from an engine that holds sentences
\* with cells, known mines and known safe cells.
C8_Witness ==
    /\ op \in {"make_safe_move", "make_random_move"}
    /\ ret # None
    /\ SentenceCells # {}
    /\ mines # {}

\* C9: observing a zero.  When add_knowledge(cell, 0) has returned, every
\* neighbour of cell inside the grid is in safes.
C9_ZeroNeighboursSafe ==
    (op = "add_knowledge" /\ nearby_mines(arg) = 0) =>
        InGridNeighbours(arg) \subseteq safes

\* C10: idempotence of the engine's marks.  A mark_mine(c) that directly
\* follows a mark_mine(c), and a mark_safe(c) that directly follows a
\* mark_safe(c), changes neither mines nor safes nor any sentence (cells and
\* count) of knowledge.  Checked under SpecMark.
C10_MarkIdempotent ==
    [][twice' => /\ mines' = mines
                 /\ safes' = safes
                 /\ knowledge' = knowledge]_vars

\* C10 witness: mark_mine was called twice in a row on an unobserved cell
\* while knowledge held the sentence of an observed neighbour.
C10_Witness ==
    /\ twice
    /\ op = "mark_mine"
    /\ arg \notin moves_made
    /\ \E c \in moves_made : arg \in InGridNeighbours(c)
    /\ Len(knowledge) > 0

\* C11: a repeated observation fails fast.  add_knowledge on a cell that is
\* in moves_made already ends in an error and leaves moves_made, safes,
\* mines, unclicked and knowledge as they were: no sentence is appended.
\* Checked under SpecRepeat.
C11_RepeatFailsFast ==
    [][(op' = "add_knowledge" /\ arg' \in moves_made) =>
          /\ ret' = ValueError
          /\ UNCHANGED <<moves_made, safes, mines, unclicked, knowledge>>]_vars

\* C11 witness: a repeated add_knowledge has raised in an engine that has
\* observed two cells and holds a sentence with cells.
C11_Witness ==
    /\ op = "add_knowledge"
    /\ ret = ValueError
    /\ arg \in moves_made
    /\ Cardinality(moves_made) >= 2
    /\ SentenceCells # {}

\* C12: sentence marking.  mark_mine(cell) takes exactly the cell out of a
\* sentence that holds it and lowers its count by exactly 1; mark_safe(cell)
\* takes exactly the cell out and leaves the count; a sentence that does not
\* hold the cell keeps its cells and its count.  Checked under SpecMark, on
\* every sentence of knowledge at every direct mark call.
C12_SentenceMarking ==
    [][/\ op' = "mark_mine" =>
             /\ Len(knowledge') = Len(knowledge)
             /\ \A k \in DOMAIN knowledge :
                   IF arg' \in knowledge[k].cells
                   THEN /\ knowledge'[k].cells = knowledge[k].cells \ {arg'}
                        /\ knowledge'[k].count = knowledge[k].count - 1
                   ELSE knowledge'[k] = knowledge[k]
       /\ op' = "mark_safe" =>
             /\ Len(knowledge') = Len(knowledge)
             /\ \A k \in DOMAIN knowledge :
                   IF arg' \in knowledge[k].cells
                   THEN /\ knowledge'[k].cells = knowledge[k].cells \ {arg'}
                        /\ knowledge'[k].count = knowledge[k].count
                   ELSE knowledge'[k] = knowledge[k]]_vars

\* C12 witness: on a 2 x 2 board, after one observation whose sentence was
\* left unresolved (it held the three other cells), mark_safe was called
\* once on one of those cells and the sentence still holds cells.
C12_Witness ==
    /\ op = "mark_safe"
    /\ nmarks = 1
    /\ height = 2 /\ width = 2
    /\ Cardinality(moves_made) = 1
    /\ arg \notin moves_made
    /\ \E k \in DOMAIN knowledge :
          /\ Cardinality(knowledge[k].cells) = 2
          /\ arg \notin knowledge[k].cells

\* C13: neighbourhood of an observation.  The sentence add_knowledge appends
\* for a cell has as its cells exactly the cells of the grid within one row
\* and one column of the cell, the cell excluded, that are not in moves_made.
C13_Neighbourhood ==
    (op = "add_knowledge" /\ ret = None) =>
        unclicked_neighbors(arg, moves_made) = InGridNeighbours(arg) \ moves_made

\* C14: single retry.  If the first make_inferences and check_obvious leave
\* no cell in safes that is not in moves_made, add_knowledge runs the two
\* once more, twice in all; otherwise it runs them once.
C14_SingleRetry ==
    [][(op' = "add_knowledge" /\ ret' = None) =>
          passes' = IF FirstPass(AI_mark_safe(Engine, arg'), arg',
                                 nearby_mines(arg'), moves_made').safes
                        \ moves_made' = {}
                    THEN 2 ELSE 1]_vars

\* C15: subset inference.  For every two sentences A, B that knowledge holds
\* when make_inferences starts, with A.cells a strict subset of B.cells,
\* knowledge holds the sentence (B.cells - A.cells, B.count - A.count) when
\* the pass ends; and when that count is 0, every cell of B.cells - A.cells
\* is in safes after the check_obvious that follows.
C15_SubsetInference ==
    (op = "add_knowledge" /\ ret = None) =>
        \A a \in DOMAIN at_append : \A b \in DOMAIN at_append :
           (/\ at_append[a].cells \subseteq at_append[b].cells
            /\ at_append[a].cells # at_append[b].cells)
           => LET cells == at_append[b].cells \ at_append[a].cells
                  count == at_append[b].count - at_append[a].count
              IN  /\ [cells |-> cells, count |-> count] \in Elems(at_sweep)
                  /\ count = 0 => cells \subseteq safes

\* C15 witness: on a 3 x 3 board, when the last make_inferences started,
\* knowledge held a sentence A with cells and count 1 and a sentence B with
\* the same count whose cells strictly include those of A; the cells of B
\* that A lacks are in safes.
C15_Witness ==
    /\ op = "add_knowledge"
    /\ height = 3 /\ width = 3
    /\ \E a \in DOMAIN at_append : \E b \in DOMAIN at_append :
          /\ at_append[a].cells # {}
          /\ at_append[a].count = 1
          /\ at_append[b].count = 1
          /\ at_append[a].cells \subseteq at_append[b].cells
          /\ at_append[a].cells # at_append[b].cells
          /\ (at_append[b].cells \ at_append[a].cells) \subseteq safes

\* C16: derived sentences are well-formed.  Every sentence make_inferences
\* derives from a pair A, B with A.cells a strict subset of B.cells has
\* 0 <= B.count - A.count <= |B.cells - A.cells|.
C16_DerivedWellFormed ==
    \A k \in DOMAIN derived :
        /\ 0 <= derived[k].count
        /\ derived[k].count <= Cardinality(derived[k].cells)

\* The place, among the sentences of K that have cells, of the k-th one.
Rank(K, k) == Cardinality({j \in 1 .. k : K[j].cells # {}})

\* C17: resolution of an all-mines sentence.  A sentence with cells and
\* count = |cells| when check_obvious starts has, when that sweep ends, all
\* its cells in mines and is itself emptied: no cells left, count 0.
C17_AllMinesResolved ==
    (op = "add_knowledge" /\ ret = None /\ passes = 1) =>
        \A k \in DOMAIN at_sweep :
           (/\ at_sweep[k].cells # {}
            /\ at_sweep[k].count = Cardinality(at_sweep[k].cells))
           => /\ at_sweep[k].cells \subseteq mines
              /\ knowledge[Rank(at_sweep, k)] = [cells |-> {}, count |-> 0]

\* C18, as stated: whenever add_knowledge has returned, knowledge holds no
\* sentence whose cells set is empty.
C18_NoEmptySentence ==
    \A k \in DOMAIN knowledge : knowledge[k].cells # {}

\* C18, amended: the sentences that are empty when check_obvious starts are
\* removed by that sweep, and only they: the sentences that had cells then
\* all stay in knowledge, in order, when add_knowledge returns, the ones the
\* sweep has emptied included.
C18_EmptyRemovedAtSweepStart ==
    (op = "add_knowledge" /\ ret = None /\ passes = 1) =>
        /\ Len(knowledge) =
              Cardinality({k \in DOMAIN at_sweep : at_sweep[k].cells # {}})
        /\ \A k \in DOMAIN at_sweep :
              at_sweep[k].cells # {} =>
                 knowledge[Rank(at_sweep, k)].cells \subseteq at_sweep[k].cells

\* C18 witness: the second add_knowledge has removed the sentence the first
\* one left empty (two sentences at least were appended, fewer remain) and
\* has left an emptied sentence of its own.
C18_Witness ==
    /\ op = "add_knowledge"
    /\ Cardinality(moves_made) = 2
    /\ Len(knowledge) < 2
    /\ \E k \in DOMAIN knowledge : knowledge[k].cells = {}

\* C19: unclicked is the complement of moves_made.  The cells of unclicked
\* are the cells of the grid not in moves_made, each listed once; a cell
\* leaves unclicked only at the call that adds it to moves_made and never
\* comes back.  Checked under SpecAny.
C19_UnclickedComplement ==
    /\ [](/\ Elems(unclicked) = Grid \ moves_made
          /\ Len(unclicked) = Cardinality(Elems(unclicked)))
    /\ [][\A c \in Grid :
             /\ (c \in Elems(unclicked) /\ c \notin Elems(unclicked'))
                   => (c \notin moves_made /\ c \in moves_made' /\ arg' = c)
             /\ c \notin Elems(unclicked) => c \notin Elems(unclicked')]_vars

\* C19 witness: two cells, one of them a mine, have been observed and have
\* left unclicked, which still lists other cells.
C19_Witness ==
    /\ op = "add_knowledge"
    /\ Cardinality(moves_made) = 2
    /\ moves_made \cap board # {}
    /\ Len(unclicked) >= 2

====
